---- MODULE Spec2Model ----
(***************************************************************************)
(* Model of the merkle tree insertion engine of go-spacemesh               *)
(* (merkle/put.go): Put, upsert, update and getPathLength, together with   *)
(* the collaborators they call (Get/findValue, the path stack, the node    *)
(* containers, the Node Store and the Value Store).                        *)
(*                                                                         *)
(* Byte strings are records [kind, raw, node]:                             *)
(*   kind = "raw"  : the bytes themselves, in raw;                         *)
(*   kind = "hash" : a 32-byte digest, represented by its preimage (raw    *)
(*                   bytes of a user value, or <<n>> for a node n), i.e.   *)
(*                   the digest is collision free.                         *)
(* Nodes are records [type, path, children, value]; a short node (leaf or  *)
(* extension) keeps its user value or its child pointer in value.          *)
(***************************************************************************)
EXTENDS Integers, Sequences, FiniteSets, TLC

VARIABLES root, treeData, userData, last, nPuts

vars == <<root, treeData, userData, last, nPuts>>

---------------------------------------------------------------------------
(* Bounds of the model *)

MaxPuts == 3

MaxKeyLen == 2

MaxFailAt == 4

MaxFailPuts == 2

(* Inline threshold of Put: values longer than this go to the user db *)
InlineThreshold == 32

(* The key bytes used: 0x12, 0x13 and 0x22 *)
KeyBytes == {18, 19, 34}

RECURSIVE SeqsUpTo(_, _)
SeqsUpTo(S, n) ==
    IF n = 0 THEN {<<>>}
    ELSE LET shorter == SeqsUpTo(S, n - 1)
         IN  shorter \cup {Append(q, x) : q \in shorter, x \in S}

Keys == SeqsUpTo(KeyBytes, MaxKeyLen)

ByteSeq(n, b) == [i \in 1..n |-> b]

(* user values of 0, 1, 32 and 33 bytes *)
Values ==
    {<<>>, ByteSeq(1, 7), ByteSeq(InlineThreshold, 7), ByteSeq(InlineThreshold + 1, 7)}

---------------------------------------------------------------------------
(* Byte strings and hashes *)

RawBytes(b) == [kind |-> "raw", raw |-> b, node |-> <<>>]

EmptyBytes == RawBytes(<<>>)

(* crypto.Sha256 of a user value *)
Sha256(v) == [kind |-> "hash", raw |-> v, node |-> <<>>]

(* the hash of a node's canonical serialization *)
getNodeHash(n) == [kind |-> "hash", raw |-> <<>>, node |-> <<n>>]

ByteLen(x) == IF x.kind = "raw" THEN Len(x.raw) ELSE 32

(* hex.EncodeToString: two nibbles per byte, high nibble first *)
RECURSIVE EncodeToString(_)
EncodeToString(k) ==
    IF k = <<>> THEN <<>>
    ELSE <<Head(k) \div 16, Head(k) % 16>> \o EncodeToString(Tail(k))

(* k[from:] of a Go string, from counted from 0 *)
SliceFrom(k, from) == SubSeq(k, from + 1, Len(k))

RECURSIVE commonPrefix(_, _)
commonPrefix(a, b) ==
    IF a = <<>> \/ b = <<>> \/ Head(a) # Head(b) THEN <<>>
    ELSE <<Head(a)>> \o commonPrefix(Tail(a), Tail(b))

---------------------------------------------------------------------------
(* Node containers *)

NoChildren == [c \in {} |-> EmptyBytes]

NilNode == [type |-> "nil", path |-> <<>>, children |-> NoChildren, value |-> EmptyBytes]

newLeafNodeContainer(path, v) ==
    [type |-> "leaf", path |-> path, children |-> NoChildren, value |-> v]

newExtNodeContainer(path, v) ==
    [type |-> "ext", path |-> path, children |-> NoChildren, value |-> v]

newBranchNodeContainer ==
    [type |-> "branch", path |-> <<>>, children |-> NoChildren, value |-> EmptyBytes]

isLeaf(n) == n.type = "leaf"

isBranch(n) == n.type = "branch"

isExt(n) == n.type = "ext"

(* shortNode.setPath *)
setPath(n, p) == [n EXCEPT !.path = p]

(* shortNode value setter, used for a leaf's value and an extension's child *)
setExtChild(n, v) == [n EXCEPT !.value = v]

(* branchNode.setValue *)
setValue(n, v) == [n EXCEPT !.value = v]

(* branch.addBranchChild: records the child's current hash under idx *)
addBranchChild(n, idx, child) ==
    [n EXCEPT !.children =
        [c \in (DOMAIN @) \cup {idx} |-> IF c = idx THEN getNodeHash(child) ELSE @[c]]]

---------------------------------------------------------------------------
(* The path stack: a sequence, bottom first, top last *)

push(s, n) == Append(s, n)

top(s) == s[Len(s)]

pop(s) == SubSeq(s, 1, Len(s) - 1)

(* stack.toSlice: the items, top of the stack first *)
toSlice(s) == [i \in 1..Len(s) |-> s[Len(s) + 1 - i]]

---------------------------------------------------------------------------
(* The stores during one call.  m is the machine state of the call:        *)
(*   treeData : the Node Store, the set of hashes with an entry            *)
(*   userData : the Value Store, the set of value hashes with an entry     *)
(*   nops     : store operations performed so far in this call             *)
(*   vwrites  : Value Store writes performed so far in this call           *)
(*   failAt   : the store operation that fails (0: none does)              *)
(*   failed   : some store operation of this call has failed               *)
(*   wfailed  : some store write (persist) of this call has failed         *)
(*   err      : the result of the last store operation                     *)
(*   log      : the Node Store writes of this call, in order, each with    *)
(*              the node as it was handed to the store                     *)

StartCall(td, ud, failAt) ==
    [treeData |-> td, userData |-> ud, nops |-> 0, vwrites |-> 0, failAt |-> failAt,
     failed |-> FALSE, wfailed |-> FALSE, err |-> FALSE, log |-> <<>>]

StoreOp(op, n) == [op |-> op, node |-> n]

Failing(m) == m.nops + 1 = m.failAt

(* Node Store persist: the entry is keyed by the node's own hash *)
persistNode(n, m) ==
    IF Failing(m)
    THEN [m EXCEPT !.nops = @ + 1, !.failed = TRUE, !.wfailed = TRUE, !.err = TRUE]
    ELSE [m EXCEPT !.nops = @ + 1, !.err = FALSE,
                   !.treeData = @ \cup {getNodeHash(n)},
                   !.log = Append(@, StoreOp("persist", n))]

(* Node Store remove: deletes the entry under the node's current hash *)
removeNodeFromStore(n, m) ==
    IF Failing(m)
    THEN [m EXCEPT !.nops = @ + 1, !.failed = TRUE, !.err = TRUE]
    ELSE [m EXCEPT !.nops = @ + 1, !.err = FALSE,
                   !.treeData = @ \ {getNodeHash(n)},
                   !.log = Append(@, StoreOp("remove", n))]

(* Node Store load by hash: the node, or NilNode with err when there is no entry *)
loadNode(h, m) ==
    IF Failing(m) \/ h \notin m.treeData \/ h.node = <<>>
    THEN [node |-> NilNode,
          m |-> [m EXCEPT !.nops = @ + 1, !.failed = TRUE, !.err = TRUE]]
    ELSE [node |-> h.node[1], m |-> [m EXCEPT !.nops = @ + 1, !.err = FALSE]]

(* Value Store persist *)
persistUserValue(v, m) ==
    IF Failing(m)
    THEN [m EXCEPT !.nops = @ + 1, !.failed = TRUE, !.wfailed = TRUE, !.err = TRUE]
    ELSE [m EXCEPT !.nops = @ + 1, !.vwrites = @ + 1, !.err = FALSE,
                   !.userData = @ \cup {Sha256(v)}]

---------------------------------------------------------------------------
(* Traversal *)

FindResult(value, s, m, err) == [value |-> value, s |-> s, m |-> m, err |-> err]

RECURSIVE findValue(_, _, _, _, _)

(* findValue goes on below a branch or an extension, in the child loaded *)
findChild(ld, k, pos, s) ==
    IF ld.m.err THEN FindResult(EmptyBytes, s, ld.m, TRUE)
    ELSE findValue(ld.node, k, pos, s, ld.m)

(* Descends from n matching k from nibble pos on; pushes every node visited *)
findValue(n, k, pos, s, m) ==
    IF n = NilNode THEN FindResult(EmptyBytes, s, m, FALSE)
    ELSE IF isBranch(n) THEN
        IF pos = Len(k) THEN FindResult(n.value, push(s, n), m, FALSE)
        ELSE IF k[pos + 1] \notin DOMAIN n.children
        THEN FindResult(EmptyBytes, push(s, n), m, FALSE)
        ELSE findChild(loadNode(n.children[k[pos + 1]], m), k, pos + 1, push(s, n))
    ELSE IF isExt(n) THEN
        IF Len(commonPrefix(n.path, SliceFrom(k, pos))) < Len(n.path)
        THEN FindResult(EmptyBytes, push(s, n), m, FALSE)
        ELSE findChild(loadNode(n.value, m), k, pos + Len(n.path), push(s, n))
    ELSE
        IF n.path = SliceFrom(k, pos) THEN FindResult(n.value, push(s, n), m, FALSE)
        ELSE FindResult(EmptyBytes, push(s, n), m, FALSE)

(* Value Store load by hash *)
loadUserValue(h, m) ==
    IF Failing(m)
    THEN [found |-> FALSE, m |-> [m EXCEPT !.nops = @ + 1, !.failed = TRUE, !.err = TRUE]]
    ELSE [found |-> h \in m.userData, m |-> [m EXCEPT !.nops = @ + 1, !.err = FALSE]]

GetResult(res, s, m, err) == [res |-> res, s |-> s, m |-> m, err |-> err]

(* Get after the Value Store lookup ld of the value f found in the tree *)
getUserValue(f, ld) ==
    IF ld.m.err THEN GetResult(EmptyBytes, <<>>, ld.m, TRUE)
    ELSE IF ld.found THEN GetResult(RawBytes(f.value.raw), f.s, ld.m, FALSE)
    ELSE GetResult(f.value, f.s, ld.m, FALSE)

(* Get after the traversal f *)
getFound(f) ==
    IF f.err THEN GetResult(EmptyBytes, <<>>, f.m, TRUE)
    ELSE IF f.value = EmptyBytes THEN GetResult(EmptyBytes, f.s, f.m, FALSE)
    ELSE getUserValue(f, loadUserValue(f.value, f.m))

(* Get: the value stored for k and the path stack.  The value found in the *)
(* tree is looked up in the Value Store: an entry there is the long value   *)
(* it is the hash of, no entry means the tree holds the value itself.       *)
Get(rt, k, m) == getFound(findValue(rt, EncodeToString(k), 0, <<>>, m))

---------------------------------------------------------------------------
(* put.go *)

InvalidUserData_KeyOnly(k, v) == Len(k) = 0

(* Put's argument check *)
InvalidUserData(k, v) == Len(v) = 0 \/ Len(k) = 0

IsLongValue_Ge(v) == Len(v) >= InlineThreshold

(* Put stores a long value in the user db and its hash in the tree *)
IsLongValue(v) == Len(v) > InlineThreshold

UserValue(v) == IF IsLongValue(v) THEN Sha256(v) ELSE RawBytes(v)

(* The number of hex chars matched by the nodes in the stack, leaves excluded *)
RECURSIVE getPathLength(_)
getPathLength(s) ==
    IF s = <<>> THEN 0
    ELSE getPathLength(Tail(s))
         + (IF isBranch(Head(s)) THEN 1
            ELSE IF isExt(Head(s)) THEN Len(Head(s).path)
            ELSE 0)

UpdateResult(s, m, err) == [s |-> s, m |-> m, err |-> err]

(* The nibble of k under which update attaches the node processed before *)
BranchChildIdx(k, pos) == k[pos + 1]

(* One iteration of update's loop on node n: [n, pos, err] *)
updateNode(n, lastRoot, pos, k) ==
    IF isBranch(n) THEN
        IF lastRoot # NilNode THEN
            IF pos < 0 \/ pos = Len(k) THEN [n |-> n, pos |-> pos, err |-> TRUE]
            ELSE [n |-> addBranchChild(n, BranchChildIdx(k, pos), lastRoot),
                  pos |-> pos - 1, err |-> FALSE]
        ELSE [n |-> n, pos |-> pos, err |-> FALSE]
    ELSE IF isExt(n) THEN
        [n |-> IF lastRoot # NilNode THEN setExtChild(n, getNodeHash(lastRoot)) ELSE n,
         pos |-> pos - Len(n.path), err |-> FALSE]
    ELSE IF isLeaf(n) THEN
        [n |-> n, pos |-> pos - Len(n.path), err |-> FALSE]
    ELSE [n |-> n, pos |-> pos, err |-> TRUE]

RECURSIVE updateLoop(_, _, _, _, _, _)

updateNext_PersistsStale(k, s, i, u, m) ==
    IF u.err THEN UpdateResult(s, m, TRUE)
    ELSE updateLoop(k, [s EXCEPT ![i] = u.n], i - 1, u.n, u.pos, persistNode(s[i], m))

(* the end of one iteration, u being what updateNode made of s[i] *)
updateNext(k, s, i, u, m) ==
    IF u.err THEN UpdateResult(s, m, TRUE)
    ELSE updateLoop(k, [s EXCEPT ![i] = u.n], i - 1, u.n, u.pos, persistNode(u.n, m))

(* update's loop over s.toSlice(): i is the stack position of the node to  *)
(* process, from the top (Len(s)) down to the bottom (1).                   *)
updateLoop(k, s, i, lastRoot, pos, m) ==
    IF i = 0 THEN UpdateResult(s, m, FALSE)
    ELSE updateNext(k, s, i, updateNode(toSlice(s)[Len(s) + 1 - i], lastRoot, pos, k), m)

update(k, s, m) ==
    IF Len(s) = 0 THEN UpdateResult(s, m, FALSE)
    ELSE updateLoop(k, s, Len(s), NilNode, Len(k) - 1, m)

UpsertResult(res, s, m) == [res |-> res, s |-> s, m |-> m]

(* upsert returns nil whatever update returned *)
updated(u) == UpsertResult("nil", u.s, u.m)

upsertEmptyTree_NoPersist(k, v, s, m) ==
    UpsertResult("nil", push(s, newLeafNodeContainer(k, v)), m)

(* case 1 - empty tree - create leaf and return *)
upsertEmptyTree(k, v, s, m) ==
    UpsertResult("nil", push(s, newLeafNodeContainer(k, v)),
                 persistNode(newLeafNodeContainer(k, v), m))

(* case 2 applies: the leaf's whole path is matched and pos is at the end of k *)
LeafMatched(pos, k, s, lastNode) ==
    LET l == getPathLength(s)
        leafPath == lastNode.path
        cp == commonPrefix(leafPath, SliceFrom(k, l))
    IN  Len(cp) = Len(leafPath) /\ pos = Len(k)

(* case 2 - set the leaf's value *)
upsertLeafValue(k, v, s, lastNode, m) ==
    updated(update(k, push(s, setExtChild(lastNode, v)), removeNodeFromStore(lastNode, m)))

upsertBranch_NoPosIncrement(pos, k, v, s, lastNode, m) ==
    IF pos < Len(k)
    THEN updated(update(k, push(push(s, lastNode),
                                newLeafNodeContainer(SliceFrom(k, pos), v)), m))
    ELSE updated(update(k, push(s, setValue(lastNode, v)),
                        removeNodeFromStore(setValue(lastNode, v), m)))

(* case 3 - matched a branch on the path; s is the stack below lastNode *)
upsertBranch(pos, k, v, s, lastNode, m) ==
    IF pos < Len(k)
    THEN updated(update(k, push(push(s, lastNode),
                                newLeafNodeContainer(SliceFrom(k, pos + 1), v)), m))
    ELSE updated(update(k, push(s, setValue(lastNode, v)),
                        removeNodeFromStore(setValue(lastNode, v), m)))

ShrunkPath_KeepsBranchNibble(lastNodePath) == lastNodePath

(* case 4: the old node's path below the new branch, its first nibble     *)
(* being the branch child key                                              *)
ShrunkPath(lastNodePath) == Tail(lastNodePath)

(* case 4: the old node is shrunk and persisted, m being the stores after *)
(* its removal, and becomes a child of the new branch                     *)
shrinkOldNode(shrunk, branchChildKey, m) ==
    [branch |-> addBranchChild(newBranchNodeContainer, branchChildKey, shrunk),
     m |-> m, err |-> m.err, old |-> shrunk]

(* case 4, the old node: what becomes of lastNode below the new branch.    *)
(* [branch, m, err, old]: the new branch, the stores, whether the persist  *)
(* of the shrunk node failed, and lastNode as this step leaves it.         *)
splitOldNode(lastNode, lastNodePath, m) ==
    IF Len(lastNodePath) > 0 THEN
        IF Len(ShrunkPath(lastNodePath)) > 0 \/ isLeaf(lastNode) THEN
            shrinkOldNode(setPath(lastNode, ShrunkPath(lastNodePath)), lastNodePath[1],
                          persistNode(setPath(lastNode, ShrunkPath(lastNodePath)),
                                      removeNodeFromStore(lastNode, m)))
        ELSE
            [branch |-> setValue(newBranchNodeContainer, lastNode.value),
             m |-> removeNodeFromStore(lastNode, m), err |-> FALSE, old |-> lastNode]
    ELSE
        [branch |-> IF isLeaf(lastNode) THEN setValue(newBranchNodeContainer, lastNode.value)
                    ELSE newBranchNodeContainer,
         m |-> removeNodeFromStore(lastNode, m), err |-> FALSE, old |-> lastNode]

(* case 4 after the old node is dealt with: s1 is the stack with the new   *)
(* extension, if any, and pos1 the nibbles matched up to the new branch    *)
upsertSplitNew(pos1, k, v, s, s1, old) ==
    IF old.err THEN UpsertResult("err", push(s, old.old), old.m)
    ELSE IF pos1 < Len(k)
    THEN updated(update(k, push(push(s1, old.branch),
                                newLeafNodeContainer(SliceFrom(k, pos1 + 1), v)), old.m))
    ELSE updated(update(k, push(s1, old.branch), old.m))

upsertSplit_AlwaysExt(pos, k, v, s, lastNode, m) ==
    LET cpl == Len(commonPrefix(lastNode.path, SliceFrom(k, pos)))
    IN  upsertSplitNew(pos + cpl, k, v, s,
            push(s, newExtNodeContainer(SubSeq(lastNode.path, 1, cpl), EmptyBytes)),
            splitOldNode(lastNode, SliceFrom(lastNode.path, cpl), m))

(* case 4 - matched a leaf or ext node *)
upsertSplit(pos, k, v, s, lastNode, m) ==
    LET cpl == Len(commonPrefix(lastNode.path, SliceFrom(k, pos)))
    IN  IF cpl > 0
        THEN upsertSplitNew(pos + cpl, k, v, s,
                 push(s, newExtNodeContainer(SubSeq(lastNode.path, 1, cpl), EmptyBytes)),
                 splitOldNode(lastNode, SliceFrom(lastNode.path, cpl), m))
        ELSE upsertSplitNew(pos, k, v, s, s, splitOldNode(lastNode, lastNode.path, m))

(* upsert below its case 1: lastNode is popped from the stack, s is the rest *)
upsertNode(pos, k, v, s, lastNode, m) ==
    IF isLeaf(lastNode) /\ getPathLength(s) > Len(k)
    THEN UpsertResult("panic", push(s, lastNode), m)
    ELSE IF isLeaf(lastNode) /\ LeafMatched(pos, k, s, lastNode)
    THEN upsertLeafValue(k, v, s, lastNode, m)
    ELSE IF isBranch(lastNode) THEN upsertBranch(pos, k, v, s, lastNode, m)
    ELSE IF pos > Len(k) THEN UpsertResult("panic", push(s, lastNode), m)
    ELSE upsertSplit(pos, k, v, s, lastNode, m)

(* Upserts (k,v): k hex encoded, pos the nibbles matched by the stack s.     *)
(* res is "nil", "err" (a returned error) or "panic" (a slice of k out of    *)
(* range); s is the stack as upsert leaves it.                               *)
upsert(pos, k, v, s, m) ==
    IF Len(s) = 0 THEN upsertEmptyTree(k, v, s, m)
    ELSE upsertNode(pos, k, v, pop(s), top(s), m)

(* What one call did: its result, the tree and the stores it leaves, and  *)
(* what it observed on the way: the stack Get returned, the pos handed to  *)
(* upsert (NoPos when upsert was not called) and the stack upsert left.    *)
NoPos == 0 - 1

CallResult(res, rt, m, uv, g, pos, s) ==
    [res |-> res, root |-> rt, treeData |-> m.treeData, userData |-> m.userData,
     nops |-> m.nops, vwrites |-> m.vwrites, failed |-> m.failed, wfailed |-> m.wfailed,
     userValue |-> uv, getRes |-> g.res,
     stackTop |-> IF Len(g.s) = 0 THEN NilNode ELSE top(g.s),
     getStack |-> g.s, pos |-> pos, upStack |-> s, log |-> m.log]

NoGet == GetResult(EmptyBytes, <<>>, StartCall({}, {}, 0), FALSE)

(* Put after upsert: the bottom of the stack becomes the root *)
PutUpserted(rt, userValue, g, pos, u) ==
    IF u.res = "panic" THEN CallResult("panic", rt, u.m, userValue, g, pos, u.s)
    ELSE IF u.res = "err" THEN CallResult("StoreError", u.s[1], u.m, userValue, g, pos, u.s)
    ELSE CallResult("nil", toSlice(u.s)[Len(u.s)], u.m, userValue, g, pos, u.s)

(* Put after Get: g is what Get returned *)
PutFound(rt, k, v, userValue, g) ==
    IF g.err THEN CallResult("panic", rt, g.m, userValue, g, NoPos, <<>>)
    ELSE IF g.res # EmptyBytes /\ g.res = RawBytes(v)
    THEN CallResult("nil", rt, g.m, userValue, g, NoPos, <<>>)
    ELSE PutUpserted(rt, userValue, g, getPathLength(g.s),
             upsert(getPathLength(g.s), EncodeToString(k), userValue, g.s, g.m))

(* Put after its argument check: m holds the stores after the user db write *)
PutValue(rt, k, v, m) ==
    IF IsLongValue(v) /\ m.err
    THEN CallResult("StoreError", rt, m, EmptyBytes, NoGet, NoPos, <<>>)
    ELSE PutFound(rt, k, v, UserValue(v), Get(rt, k, m))

(* store user data (k,v); failAt names the store operation that fails *)
PutCall(rt, td, ud, k, v, failAt) ==
    IF InvalidUserData(k, v)
    THEN CallResult("InvalidUserDataError", rt, StartCall(td, ud, failAt), EmptyBytes,
                    NoGet, NoPos, <<>>)
    ELSE IF IsLongValue(v)
    THEN PutValue(rt, k, v, persistUserValue(v, StartCall(td, ud, failAt)))
    ELSE PutValue(rt, k, v, StartCall(td, ud, failAt))

---------------------------------------------------------------------------
(* The state machine: a tree that is called with Put and Get *)

NoCall ==
    [op |-> "none", k |-> <<>>, v |-> <<>>, failAt |-> 0, res |-> "nil",
     preRoot |-> NilNode, preTree |-> {}, preUser |-> {},
     nops |-> 0, vwrites |-> 0, failed |-> FALSE, wfailed |-> FALSE,
     userValue |-> EmptyBytes, getRes |-> EmptyBytes, stackTop |-> NilNode,
     getStack |-> <<>>, pos |-> NoPos, upStack |-> <<>>, log |-> <<>>]

Init ==
    /\ root = NilNode
    /\ treeData = {}
    /\ userData = {}
    /\ last = NoCall
    /\ nPuts = 0

(* The model follows a tree up to the first store operation that fails *)
Usable == ~last.failed

PutStep(k, v, failAt) ==
    /\ nPuts < MaxPuts
    /\ Usable
    /\ \E c \in {PutCall(root, treeData, userData, k, v, failAt)} :
        /\ failAt > 0 => c.failed
        /\ root' = c.root
        /\ treeData' = c.treeData
        /\ userData' = c.userData
        /\ nPuts' = nPuts + 1
        /\ last' = [op |-> "Put", k |-> k, v |-> v, failAt |-> failAt, res |-> c.res,
                    preRoot |-> root, preTree |-> treeData, preUser |-> userData,
                    nops |-> c.nops, vwrites |-> c.vwrites, failed |-> c.failed,
                    wfailed |-> c.wfailed, userValue |-> c.userValue,
                    getRes |-> c.getRes, stackTop |-> c.stackTop,
                    getStack |-> c.getStack, pos |-> c.pos, upStack |-> c.upStack,
                    log |-> c.log]

(* Put with stores that work *)
Put ==
    \E k \in Keys, v \in Values : PutStep(k, v, 0)

Next == Put

Spec == Init /\ [][Next]_vars

(* The stores may fail: a single action, whose failAt = 0 is Put *)
PutOrFail ==
    \E k \in Keys, v \in Values, failAt \in 0..MaxFailAt :
        /\ failAt > 0 => nPuts < MaxFailPuts
        /\ PutStep(k, v, failAt)

NextF == PutOrFail

SpecF == Init /\ [][NextF]_vars

---------------------------------------------------------------------------
(* Reading the current tree *)

GetNow(k) == Get(root, k, StartCall(treeData, userData, 0))

Found(g) == ~g.err /\ g.res # EmptyBytes

PutReturnedNil == last.op = "Put" /\ last.res = "nil"

---------------------------------------------------------------------------
(* C1: round trip. After any sequence of Puts, a Put(k, v) that returns   *)
(* nil is followed by Get(k) returning found with exactly v (a long value  *)
(* after the dereference through the Value Store).                         *)
C1_RoundTrip ==
    PutReturnedNil => (Found(GetNow(last.k)) /\ GetNow(last.k).res = RawBytes(last.v))

---------------------------------------------------------------------------
(* C2: overwrite. For a key already stored with a value v1 and v2 # v1,    *)
(* Put(k, v2) makes Get(k) return v2 and changes the root hash.            *)
OverwriteCase ==
    PutReturnedNil /\ last.getRes # EmptyBytes /\ last.getRes # RawBytes(last.v)

C2_Overwrite ==
    OverwriteCase =>
        /\ Found(GetNow(last.k))
        /\ GetNow(last.k).res = RawBytes(last.v)
        /\ getNodeHash(root) # getNodeHash(last.preRoot)

---------------------------------------------------------------------------
(* C3: no dangling references. After any sequence of Puts every hash       *)
(* reference (branch child or extension child) reachable from the root     *)
(* resolves to an entry of the Node Store.                                 *)
Refs(n) ==
    IF isBranch(n) THEN {n.children[c] : c \in DOMAIN n.children}
    ELSE IF isExt(n) THEN {n.value}
    ELSE {}

RECURSIVE AllResolved(_)
AllResolved(n) ==
    \A h \in Refs(n) : h \in treeData /\ h.node # <<>> /\ AllResolved(h.node[1])

C3_NoDanglingReferences ==
    (last.op = "Put" /\ last.res = "nil") => AllResolved(root)

---------------------------------------------------------------------------
(* C4: order independence. From an empty tree, Put(k1,v1);Put(k2,v2) and   *)
(* Put(k2,v2);Put(k1,v1) end with the same root hash, for distinct keys.   *)
EmptyTree == [root |-> NilNode, treeData |-> {}, userData |-> {}]

PutOn(tree, k, v) == PutCall(tree.root, tree.treeData, tree.userData, k, v, 0)

(* the tree before the last call is the result of one Put on an empty tree *)
SecondPut ==
    /\ PutReturnedNil
    /\ isLeaf(last.preRoot)
    /\ last.preTree = {getNodeHash(last.preRoot)}

C4_OrderIndependence ==
    SecondPut =>
        \A k1 \in Keys, v1 \in Values :
            (/\ ~InvalidUserData(k1, v1)
             /\ k1 # last.k
             /\ PutOn(EmptyTree, k1, v1).root = last.preRoot)
            => getNodeHash(root)
                 = getNodeHash(PutOn(PutOn(EmptyTree, last.k, last.v), k1, v1).root)

---------------------------------------------------------------------------
(* C5: idempotent duplicate put. In any reachable tree, Put(k, v)          *)
(* immediately followed by a second Put(k, v) leaves the root and the tree *)
(* as they were after the first call.                                      *)
C5_IdempotentDuplicatePut ==
    [][(/\ PutReturnedNil
        /\ last'.op = "Put" /\ last'.k = last.k /\ last'.v = last.v
        /\ nPuts' = nPuts + 1)
       => (/\ last'.res = "nil"
           /\ root' = root
           /\ treeData' = treeData
           /\ userData' = userData)]_vars

---------------------------------------------------------------------------
(* C6: Put with an empty key or an empty value returns                     *)
(* InvalidUserDataError and has no side effects: the root, the Node Store  *)
(* and the Value Store are unchanged and no store operation is performed.  *)
C6_InvalidUserData ==
    (last.op = "Put" /\ (Len(last.k) = 0 \/ Len(last.v) = 0)) =>
        /\ last.res = "InvalidUserDataError"
        /\ root = last.preRoot
        /\ treeData = last.preTree
        /\ userData = last.preUser
        /\ last.nops = 0

(* an empty value is put under a key of a tree that already holds data *)
C6_Witness ==
    /\ last.op = "Put"
    /\ Len(last.v) = 0
    /\ Len(last.k) > 0
    /\ root # NilNode
    /\ userData # {}
    /\ last.res = "InvalidUserDataError"

---------------------------------------------------------------------------
(* C7: store failure propagation. If a store operation performed during a  *)
(* Put fails, Put returns a non-nil error; it never returns nil, with a    *)
(* new root installed, after a failed store write.                         *)
C7_StoreFailurePropagates ==
    (last.op = "Put" /\ last.failed) => last.res = "StoreError"

---------------------------------------------------------------------------
(* C8: prefix split. From an empty tree, two keys of equal nibble length   *)
(* that share a non-empty proper nibble prefix cp and diverge at the next  *)
(* nibble give root = Extension(cp) over a Branch with exactly two         *)
(* children, one under each key's diverging nibble, each a Leaf with that  *)
(* key's remaining suffix and value; Get of both keys returns their values *)
SharedPrefix == commonPrefix(last.preRoot.path, EncodeToString(last.k))

PrefixSplitCase ==
    /\ SecondPut
    /\ Len(last.preRoot.path) = Len(EncodeToString(last.k))
    /\ Len(SharedPrefix) > 0
    /\ Len(SharedPrefix) < Len(last.preRoot.path)

(* the first key and what Get returned for it before the second Put *)
FirstKey == CHOOSE k \in Keys : EncodeToString(k) = last.preRoot.path

GetBefore(k) == Get(last.preRoot, k, StartCall(last.preTree, last.preUser, 0))

C8_PrefixSplit ==
    PrefixSplitCase =>
        LET p1 == last.preRoot.path
            p2 == EncodeToString(last.k)
            c == Len(SharedPrefix)
            leaf1 == [type |-> "leaf", path |-> SubSeq(p1, c + 2, Len(p1)),
                      children |-> NoChildren, value |-> last.preRoot.value]
            leaf2 == [type |-> "leaf", path |-> SubSeq(p2, c + 2, Len(p2)),
                      children |-> NoChildren, value |-> last.userValue]
            fork == IF isExt(root) /\ root.value.node # <<>>
                    THEN root.value.node[1] ELSE NilNode
        IN  /\ isExt(root)
            /\ root.path = SharedPrefix
            /\ isBranch(fork)
            /\ fork.value = EmptyBytes
            /\ DOMAIN fork.children = {p1[c + 1], p2[c + 1]}
            /\ Cardinality(DOMAIN fork.children) = 2
            /\ fork.children[p1[c + 1]] = getNodeHash(leaf1)
            /\ fork.children[p2[c + 1]] = getNodeHash(leaf2)
            /\ Found(GetNow(last.k))
            /\ GetNow(last.k).res = RawBytes(last.v)
            /\ Found(GetBefore(FirstKey))
            /\ Found(GetNow(FirstKey))
            /\ GetNow(FirstKey).res = GetBefore(FirstKey).res

(* two two-byte keys that differ in their last byte only, the second one   *)
(* with a long value                                                       *)
C8_Witness ==
    /\ PrefixSplitCase
    /\ Len(last.k) = 2
    /\ Len(SharedPrefix) = 3
    /\ last.userValue.kind = "hash"

---------------------------------------------------------------------------
(* C9: empty tree insert. Put(k, v) on an empty tree creates exactly one   *)
(* Leaf whose path is the hex-nibble encoding of k (two nibbles per byte)  *)
(* and whose value is the user value, persists it and makes it the root;   *)
(* then Get(k) is found with v and Get of any other key is not found.      *)
EmptyTreeInsertCase == PutReturnedNil /\ last.preRoot = NilNode

C9_EmptyTreeInsert ==
    EmptyTreeInsertCase =>
        /\ isLeaf(root)
        /\ Len(root.path) = 2 * Len(last.k)
        /\ \A i \in 1..Len(last.k) :
               16 * root.path[2 * i - 1] + root.path[2 * i] = last.k[i]
        /\ root.value = last.userValue
        /\ last.userValue \in {RawBytes(last.v), Sha256(last.v)}
        /\ treeData = last.preTree \cup {getNodeHash(root)}
        /\ Cardinality(treeData) = 1
        /\ Found(GetNow(last.k))
        /\ GetNow(last.k).res = RawBytes(last.v)
        /\ \A k \in Keys : (k # <<>> /\ k # last.k) => ~Found(GetNow(k))

(* a two-byte key with a long value is put into the empty tree *)
C9_Witness ==
    /\ EmptyTreeInsertCase
    /\ Len(last.k) = 2
    /\ Len(last.v) > InlineThreshold
    /\ isLeaf(root)

---------------------------------------------------------------------------
(* C10: inline threshold. For every Put(k, v): if len(v) > 32 the value is *)
(* persisted in the Value Store and the value recorded in the tree is its  *)
(* 32-byte hash; if len(v) <= 32 the tree records v itself and the Value   *)
(* Store is not written.                                                   *)
RawValueIn(rt, td, k) ==
    findValue(rt, EncodeToString(k), 0, <<>>, StartCall(td, {}, 0)).value

ValidPut == last.op = "Put" /\ Len(last.k) > 0 /\ Len(last.v) > 0

---------------------------------------------------------------------------
(* C11: key isolation. For every reachable tree and every key k' # k, a    *)
(* Put(k, v) does not change the result of Get(k'): found with the same    *)
(* value as before, or not found as before.                                *)
OtherKeys == {k \in Keys : k # <<>> /\ k # last.k}

C11_KeyIsolation ==
    PutReturnedNil =>
        \A k2 \in OtherKeys :
            /\ Found(GetNow(k2)) = Found(GetBefore(k2))
            /\ GetNow(k2).res = GetBefore(k2).res

---------------------------------------------------------------------------
(* C12: the pos that Put passes to upsert equals the number of key nibbles *)
(* matched by the nodes on the path stack, counting 1 for each Branch and  *)
(* the stored path length for each Extension and each Leaf on the stack.   *)
(* Stated for the Puts whose key Get found, where the nodes of the stack   *)
(* match the whole key.                                                    *)
RECURSIVE StackNibbles(_)
StackNibbles(s) ==
    IF s = <<>> THEN 0
    ELSE StackNibbles(Tail(s))
         + (IF isBranch(Head(s)) THEN 1 ELSE Len(Head(s).path))

UpsertCalled == last.op = "Put" /\ last.pos # NoPos

(* Get found k: every node on the stack, the top one included, matches k,  *)
(* so the nibbles matched are the nibbles the stack stores                 *)
StackMatchesKey == UpsertCalled /\ last.getRes # EmptyBytes

C12_PosCountsStack ==
    StackMatchesKey =>
        /\ last.pos = StackNibbles(last.getStack)
        /\ last.pos = Len(EncodeToString(last.k))

---------------------------------------------------------------------------
(* C13: branch continuation. When the traversal for k stops at a Branch    *)
(* that has no child for k's next unmatched nibble n (k = matched prefix,  *)
(* n, suffix s), Put(k, v) leaves that Branch, in the tree under the new   *)
(* root, with a new Leaf child under n whose path is s and whose value is  *)
(* v; the Branch's other children and its own value are unchanged.         *)
HexKey == EncodeToString(last.k)

(* parent holds the hash of child, and the stack s is a path of such links *)
Links(parent, child) == getNodeHash(child) \in Refs(parent)

Chain(s) == \A i \in 1..(Len(s) - 1) : Links(s[i], s[i + 1])

BranchContinuationCase ==
    /\ UpsertCalled
    /\ isBranch(last.stackTop)
    /\ last.pos < Len(HexKey)
    /\ HexKey[last.pos + 1] \notin DOMAIN last.stackTop.children

---------------------------------------------------------------------------
(* C14: fork with a fully consumed key. In the Leaf/Extension split case,  *)
(* when the key has no nibbles left after the prefix it shares with the    *)
(* existing node, the new Branch's own value is v; when nibbles remain, a  *)
(* new Leaf with the remaining suffix and v is attached under the key's    *)
(* diverging nibble.                                                       *)

(* the nibbles matched by the nodes below the top of the stack Get returned *)
ForkBase == getPathLength(pop(last.getStack))

ForkShared == commonPrefix(last.stackTop.path, SliceFrom(HexKey, ForkBase))

(* the nibbles of the key matched up to the new Branch *)
ForkAt == ForkBase + Len(ForkShared)

ForkCase ==
    /\ UpsertCalled
    /\ isLeaf(last.stackTop) \/ isExt(last.stackTop)
    /\ ~(isLeaf(last.stackTop) /\ last.stackTop.path = <<>> /\ ForkBase = Len(HexKey))

(* where the new Branch is on the stack upsert leaves: in the place of     *)
(* the old node, or below the new Extension holding the shared prefix      *)
ForkIdx == IF ForkShared = <<>> THEN Len(last.getStack) ELSE Len(last.getStack) + 1

C14_ForkConsumedKey ==
    ForkCase =>
        /\ last.res = "nil"
        /\ Len(last.upStack) >= ForkIdx
        /\ root = last.upStack[1]
        /\ Chain(last.upStack)
        /\ isBranch(last.upStack[ForkIdx])
        /\ ForkAt = Len(HexKey) => last.upStack[ForkIdx].value = last.userValue
        /\ ForkAt < Len(HexKey) =>
               /\ HexKey[ForkAt + 1] \in DOMAIN last.upStack[ForkIdx].children
               /\ last.upStack[ForkIdx].children[HexKey[ForkAt + 1]]
                    = getNodeHash(newLeafNodeContainer(SliceFrom(HexKey, ForkAt + 1),
                                                       last.userValue))

---------------------------------------------------------------------------
(* C15: bottom-up commit. Within one Put, update processes the path stack  *)
(* from the deepest node to the root: the nodes of the stack are the last  *)
(* nodes persisted, top of the stack first; each is persisted holding the  *)
(* hash of the node persisted just before it, so no parent is persisted    *)
(* before the child it references, and the last node persisted is the new  *)
(* root.                                                                   *)
IsPersist(e) == e.op = "persist"

Persisted == SelectSeq(last.log, IsPersist)

(* the i-th node from the end of the persists of the last call *)
PersistedFromEnd(i) == Persisted[Len(Persisted) + 1 - i].node

CommitCase == UpsertCalled /\ last.res = "nil"

C15_BottomUpCommit ==
    CommitCase =>
        /\ Len(last.upStack) > 0
        /\ Len(Persisted) >= Len(last.upStack)
        /\ \A i \in 1..Len(last.upStack) : PersistedFromEnd(i) = last.upStack[i]
        /\ Chain(last.upStack)
        /\ \A i \in 1..Len(last.upStack) : getNodeHash(last.upStack[i]) \in treeData
        /\ root = PersistedFromEnd(1)

(* a commit over a stack of three nodes: Extension, Branch and new Leaf *)
C15_Witness ==
    /\ CommitCase
    /\ Len(last.upStack) = 3
    /\ isExt(last.upStack[1])
    /\ isBranch(last.upStack[2])
    /\ isLeaf(last.upStack[3])
    /\ Len(Persisted) > 3
    /\ root = last.upStack[1]

---------------------------------------------------------------------------
(* C16: path compression. After any sequence of Puts every Branch          *)
(* reachable from the root has at least two children or holds a value.     *)
RECURSIVE ReachableNodes(_)
ReachableNodes(n) ==
    {n} \cup UNION {ReachableNodes(h.node[1]) : h \in {r \in Refs(n) : r.node # <<>>}}

C16_PathCompression ==
    \A b \in ReachableNodes(root) :
        isBranch(b) => (Cardinality(DOMAIN b.children) >= 2 \/ b.value # EmptyBytes)

---------------------------------------------------------------------------
(* C17: non-empty paths. After any completed Put every Leaf and every      *)
(* Extension reachable from the root has a non-empty stored path; no       *)
(* Branch has a child that is a Leaf with an empty path.                   *)
ShortNodes == {n \in ReachableNodes(root) : isLeaf(n) \/ isExt(n)}

ExtChildren ==
    {h.node[1] : h \in {r \in UNION {Refs(n) : n \in {e \in ShortNodes : isExt(e)}} :
                            r.node # <<>>}}

---------------------------------------------------------------------------
(* C18: old-hash removal. Whenever a Put changes the content of an         *)
(* existing node (the node the traversal stopped at, or an ancestor        *)
(* relinked by update), the entry under that node's pre-change hash is     *)
(* removed from the Node Store and the node is persisted again under its   *)
(* new hash.                                                               *)

(* the nodes of the stack Get returned that the Put changed or replaced *)
ChangedAt(i) == i > Len(last.upStack) \/ last.upStack[i] # last.getStack[i]

RemovedOldHash(n) == \E j \in 1..Len(last.log) : last.log[j] = StoreOp("remove", n)

C18_OldHashRemoval ==
    CommitCase =>
        \A i \in 1..Len(last.getStack) :
            ChangedAt(i) =>
                /\ RemovedOldHash(last.getStack[i])
                /\ i < Len(last.getStack) =>
                       \E j \in 1..Len(last.log) :
                           last.log[j] = StoreOp("persist", last.upStack[i])

---------------------------------------------------------------------------
(* C19: index safety. For every reachable tree and every non-empty key and *)
(* value, Put completes by returning nil or an error: every slice k[pos:]  *)
(* or k[l:] taken in upsert has its offset within 0..len(k), also when the *)
(* traversal stops at an Extension or Leaf whose stored path is longer     *)
(* than the key's remaining nibbles.                                       *)
C19_IndexSafety ==
    (ValidPut /\ UpsertCalled) =>
        /\ last.res \in {"nil", "StoreError"}
        /\ (isLeaf(last.stackTop) \/ isExt(last.stackTop)) => last.pos <= Len(HexKey)

====
